---- MODULE Spec2Model ----
(***************************************************************************)
(* Model of src/backend/server.js: the process-wide session               *)
(* (currentProcessing), the HTTP handlers that replace or flip it, and the *)
(* background task processRecords, cut at its suspension points (awaits).  *)
(*                                                                         *)
(* Node runs one handler or one continuation of an async function at a     *)
(* time, so an action is the code that runs between two awaits.  The       *)
(* driver calls inside NCRAtleosAutomation only touch the browser and the  *)
(* log, so each of its methods is cut in two: the part up to its first     *)
(* await and the part from its last await to the next await of the caller. *)
(***************************************************************************)
EXTENDS Integers, Sequences, FiniteSets, Bags, TLC

\* ------------------------------------------------------------------ bounds
MaxRows == 2        \* rows of an uploaded sheet
MaxUploads == 2     \* uploads accepted in one run of the server
MaxRunners == 2     \* processRecords invocations alive at the same time

VARIABLES
  currentProcessing,  \* the session object (server.js:44)
  heap,               \* the record objects, by reference
  uploads,            \* number of uploads so far: names the objects of an upload
  runners,            \* the live invocations of processRecords: a bag of their locals
  stopped             \* a stop was handled during the live invocations, and no
                      \* start has been accepted since (written, never read)

vars == <<currentProcessing, heap, uploads, runners, stopped>>

\* ------------------------------------------------------------- record model
NoRecord == <<0, 0>>                       \* null
\* A record object is named <<g, id>>: g is the upload that built it, id is
\* the record's id field.
Refs == (1..MaxUploads) \X (1..MaxRows)
IdValues == {"", "ATM"}                    \* row['Id NCR']: absent or present
Sheets == UNION {[1..n -> IdValues] : n \in 0..MaxRows}

\* records.map(...).filter(record => record.idNCR): the ids keep the row number
RECURSIVE FilterRows(_, _, _)
FilterRows(rows, k, g) ==
  IF k > Len(rows) THEN <<>>
  ELSE (IF rows[k] # "" THEN <<(<<g, k>>)>> ELSE <<>>) \o FilterRows(rows, k + 1, g)

NewRecord == [status |-> "pending", error |-> "none"]

Terminal == {"completed", "error"}

\* ----------------------------------------------------------------- log sink
\* logs.push({timestamp, message, type}) of the first server (lines 54-62).
\* Of the list this model keeps which types occur in it: the message and
\* the record it names (g) say where in the code the entry is written.
addLog(cp, message, type, g) ==
  [cp EXCEPT !.logs = @ \cup {type}]

\* ------------------------------------------------------------------ session
EmptySession ==
  [isProcessing |-> FALSE, currentRecord |-> NoRecord, totalRecords |-> 0,
   processedRecords |-> 0, logs |-> {}, records |-> <<>>]

NewRunner ==
  [pc |-> "launch", i |-> 0, record |-> NoRecord, browser |-> "null",
   delay |-> FALSE, searchSuccess |-> FALSE, closeCalls |-> 0, exit |-> "none"]


\* The record objects something still refers to: the session's batch, its
\* currentRecord, and the record constant of each live loop body.  An
\* object nothing refers to can never be read again and is dropped.
Live(cp, rns) ==
  ({cp.records[k] : k \in 1..Len(cp.records)} \cup {cp.currentRecord}
     \cup {rn.record : rn \in BagToSet(rns)}) \ {NoRecord}

Collect(hp, cp, rns) == [o \in DOMAIN hp \cap Live(cp, rns) |-> hp[o]]
One(rn) == SetToBag({rn})

Init ==
  /\ currentProcessing = addLog(EmptySession, "Servidor iniciado", "success", 0)
  /\ heap = <<>>
  /\ uploads = 0
  /\ runners = EmptyBag
  /\ stopped = FALSE


\* ----------------------------------------------------- request handlers
\* POST /api/upload-excel without a file: 400, nothing changes
UploadNoFile ==
  UNCHANGED vars

\* POST /api/upload-excel with a file XLSX cannot read: the catch logs, 500
UploadUnreadable ==
  /\ currentProcessing' = addLog(currentProcessing, "Error procesando Excel", "error", 0)
  /\ UNCHANGED <<heap, uploads, runners, stopped>>

\* an upload that also took the session out of processing
ReplaceBatch_Mut(cp, records) ==
  addLog([cp EXCEPT !.records = records,
                    !.totalRecords = Len(records),
                    !.processedRecords = 0,
                    !.isProcessing = FALSE,
                    !.logs = {}],
         "Archivo Excel procesado", "success", 0)

\* lines 347-352: the session's batch is replaced, counts and logs reset;
\* isProcessing and currentRecord are left as they are
ReplaceBatch(cp, records) ==
  addLog([cp EXCEPT !.records = records,
                    !.totalRecords = Len(records),
                    !.processedRecords = 0,
                    !.logs = {}],
         "Archivo Excel procesado", "success", 0)

\* POST /api/upload-excel with a readable sheet (lines 330-361); the
\* temporary file just written is there to be removed (line 355)
UploadExcel(rows) ==
  /\ uploads < MaxUploads
  /\ LET g == uploads + 1
         records == FilterRows(rows, 1, g)
     IN /\ uploads' = g
        /\ currentProcessing' = ReplaceBatch(currentProcessing, records)
        /\ heap' = Collect([o \in DOMAIN heap \cup {records[k] : k \in 1..Len(records)} |->
                               IF o \in DOMAIN heap THEN heap[o] ELSE NewRecord],
                            currentProcessing', runners)
  /\ UNCHANGED <<runners, stopped>>

\* an acceptance that resets the count and leaves the flag as it is
BeginBatch_Mut(cp) == [cp EXCEPT !.processedRecords = 0]

\* lines 386-387
BeginBatch(cp) == [cp EXCEPT !.isProcessing = TRUE, !.processedRecords = 0]

\* the synchronous head of processRecords: the constructor, and initialize()
\* up to its await of puppeteer.launch
SpawnRunner(delay) ==
  [NewRunner EXCEPT !.delay = delay]

\* POST /api/start-processing, the three rejections (lines 372-384)
StartRejected(credentials) ==
  /\ \/ currentProcessing.isProcessing
     \/ ~credentials
     \/ Len(currentProcessing.records) = 0
  /\ UNCHANGED vars

\* POST /api/start-processing accepted (lines 386-392)
StartProcessing(credentials, delay) ==
  /\ ~currentProcessing.isProcessing
  /\ credentials
  /\ Len(currentProcessing.records) > 0
  /\ BagCardinality(runners) < MaxRunners
  /\ runners' = runners (+) One(SpawnRunner(delay))
  /\ stopped' = FALSE
  /\ currentProcessing' =
       addLog(BeginBatch(currentProcessing), "Iniciando navegador...", "info", 0)
  /\ UNCHANGED <<heap, uploads>>

\* POST /api/stop-processing (lines 485-489)
StopProcessing ==
  /\ currentProcessing' =
       addLog([currentProcessing EXCEPT !.isProcessing = FALSE],
              "Procesamiento detenido por el usuario", "warning", 0)
  /\ stopped' = (runners # EmptyBag)
  /\ UNCHANGED <<heap, uploads, runners>>

\* POST /api/clear-data (lines 492-502)
ClearData ==
  /\ currentProcessing' = EmptySession
  /\ heap' = Collect(heap, EmptySession, runners)
  /\ UNCHANGED <<uploads, runners, stopped>>

\* GET /api/processing-status (lines 464-475): a projection, no state change
Progress(cp) ==
  IF cp.totalRecords > 0
  THEN ((cp.processedRecords * 200) \div cp.totalRecords + 1) \div 2
  ELSE 0


\* ------------------------------------------------------- processRecords
\* A step of the runner yields the new session, the new locals and the new
\* record objects: [cp, rn, hp].

\* a finally block that resets the session without calling automation.close()
Finally_Mut(cp, rn, hp) ==
  [cp |-> [cp EXCEPT !.isProcessing = FALSE, !.currentRecord = NoRecord],
   rn |-> [rn EXCEPT !.pc = "done"],
   hp |-> hp]

\* The finally block (lines 456-460).  automation.close() awaits
\* browser.close() only when a browser was launched; with no browser it
\* has no await of its own and the two assignments follow at once.
Finally(cp, rn, hp) ==
  LET called == [rn EXCEPT !.closeCalls = @ + 1, !.i = 0, !.record = NoRecord,
                           !.delay = FALSE, !.searchSuccess = FALSE]
  IN IF rn.browser = "open"
     THEN [cp |-> cp, rn |-> [called EXCEPT !.pc = "closing"], hp |-> hp]
     ELSE [cp |-> [cp EXCEPT !.isProcessing = FALSE, !.currentRecord = NoRecord],
           rn |-> [called EXCEPT !.pc = "done"],
           hp |-> hp]

\* an outer catch that also marked the records of the batch as failed
Fatal_Mut(cp, rn, hp) ==
  Finally(addLog(cp, "Error fatal en procesamiento", "error", 0),
          [rn EXCEPT !.exit = "fatal"],
          [o \in DOMAIN hp |->
             IF \E k \in 1..Len(cp.records) : cp.records[k] = o
             THEN [status |-> "error", error |-> "Error fatal"]
             ELSE hp[o]])

\* The outer catch (lines 454-455), then the finally block
Fatal(cp, rn, hp) ==
  Finally(addLog(cp, "Error fatal en procesamiento", "error", 0),
          [rn EXCEPT !.exit = "fatal"], hp)

\* The loop test of line 412 with the head of the body (lines 413-420, up
\* to the first await of searchAndSelectATM), or the loop exit (line 452)
LoopHead(cp, rn, hp) ==
  IF rn.i < Len(cp.records)
  THEN LET record == cp.records[rn.i + 1]
       IN [cp |-> addLog(addLog([cp EXCEPT !.currentRecord = record],
                                "Procesando registro", "info", record[1]),
                         "Buscando ATM", "info", record[1]),
           rn |-> [rn EXCEPT !.record = record, !.pc = "search",
                             !.searchSuccess = FALSE],
           hp |-> hp]
  ELSE Finally(addLog(cp, "Procesamiento completado", "success", 0),
               [rn EXCEPT !.exit = "completed"], hp)

\* line 449 and the i++ of line 412
EndIteration(cp, rn, hp) ==
  LoopHead([cp EXCEPT !.processedRecords = @ + 1], [rn EXCEPT !.i = @ + 1], hp)

\* lines 421-423 without the continue of line 424: on to createIncident
SearchFailed_Mut(cp, rn, hp) ==
  [cp |-> addLog(cp, "Creando incidente", "info", rn.record[1]),
   rn |-> [rn EXCEPT !.pc = "create"],
   hp |-> [hp EXCEPT ![rn.record] =
              [status |-> "error", error |-> "No se pudo encontrar el ATM"]]]

\* lines 421-425: the target was not found
SearchFailed(cp, rn, hp) ==
  LoopHead(cp, [rn EXCEPT !.i = @ + 1],
           [hp EXCEPT ![rn.record] =
              [status |-> "error", error |-> "No se pudo encontrar el ATM"]])

\* lines 437-441 and what follows them
AfterRecord(cp, rn, hp) ==
  IF rn.delay /\ rn.i < Len(cp.records) - 1
  THEN [cp |-> addLog(cp, "Esperando antes del siguiente registro", "info", 0),
        rn |-> [rn EXCEPT !.pc = "delay", !.searchSuccess = FALSE], hp |-> hp]
  ELSE EndIteration(cp, rn, hp)

\* lines 428-435
CreateResult(cp, rn, hp, createSuccess) ==
  IF createSuccess
  THEN AfterRecord(addLog(cp, "Registro procesado exitosamente", "success", rn.record[1]),
                   rn, [hp EXCEPT ![rn.record].status = "completed"])
  ELSE AfterRecord(cp, rn,
                   [hp EXCEPT ![rn.record] =
                      [status |-> "error", error |-> "Error creando incidente"]])

\* The invocation with locals rn takes the step whose result is out
Install(rn, out) ==
  /\ currentProcessing' = out.cp
  /\ runners' = IF out.rn.pc = "done"
                THEN runners (-) One(rn)
                ELSE (runners (-) One(rn)) (+) One(out.rn)
  /\ stopped' = (stopped /\ runners' # EmptyBag)
  /\ heap' = Collect(out.hp, out.cp, runners')
  /\ UNCHANGED uploads

\* initialize() resumes from puppeteer.launch (lines 74-79), then login()
\* runs up to its first await (line 85).  launch may reject (no browser),
\* newPage or setViewport may reject (browser set).
DriverLaunch == {"ok", "launchFailed", "pageFailed"}

LaunchDone(rn, outcome) ==
  /\ rn.pc = "launch"
  /\ LET cp == currentProcessing
     IN Install(rn,
          CASE outcome = "ok" ->
                 [cp |-> addLog(cp, "Navegando a NCR Atleos...", "info", 0),
                  rn |-> [rn EXCEPT !.browser = "open", !.pc = "login"],
                  hp |-> heap]
            [] outcome = "pageFailed" ->
                 Fatal(cp, [rn EXCEPT !.browser = "open"], heap)
            [] OTHER -> Fatal(cp, rn, heap))

\* login() resumes (lines 88-109); any driver error inside it is caught and
\* becomes false, which processRecords turns into a throw (lines 408-410)
LoginDone(rn, loginSuccess) ==
  /\ rn.pc = "login"
  /\ LET cp == currentProcessing
     IN Install(rn,
          IF loginSuccess
          THEN LoopHead(addLog(addLog(cp, "Introduciendo credenciales...", "info", 0),
                               "Login exitoso", "success", 0),
                        rn, heap)
          ELSE Fatal(addLog(cp, "Error en login", "error", 0), rn, heap))

\* What the driver can do to a call made for a record
DriverOutcome == {"ok", "notFound", "crashed"}

\* searchAndSelectATM (lines 112-140): every driver error is caught
searchAndSelectATM(outcome) == outcome = "ok"

SearchDone(rn, outcome) ==
  /\ rn.pc = "search"
  /\ LET cp == currentProcessing
         g == rn.record[1]
         searchSuccess == searchAndSelectATM(outcome)
     IN Install(rn,
          IF searchSuccess
          THEN [cp |-> addLog(addLog(cp, "ATM seleccionado exitosamente", "success", g),
                              "Creando incidente", "info", g),
                rn |-> [rn EXCEPT !.searchSuccess = TRUE, !.pc = "create"],
                hp |-> heap]
          ELSE SearchFailed(addLog(cp, "Error buscando ATM", "error", g),
                            [rn EXCEPT !.searchSuccess = FALSE], heap))

\* createIncident (lines 142-186): false when no create control is found
\* (line 168), when saveIncident throws for want of a save control (line
\* 305) and when a driver call of its own throws (lines 172, 182-184); a
\* field that cannot be filled only logs
CreateOutcome == {"ok", "noCreateControl", "noSaveControl", "crashed"}
createIncident(outcome) == outcome = "ok"

CreateDone(rn, outcome) ==
  /\ rn.pc = "create"
  /\ LET cp == currentProcessing
         g == rn.record[1]
         createSuccess == createIncident(outcome)
     IN Install(rn,
          CreateResult(
            IF createSuccess
            THEN addLog(cp, "Incidente creado exitosamente", "success", g)
            ELSE addLog(cp, "Error creando incidente", "error", 0),
            rn, heap, createSuccess))

\* the timer of line 440 fires
DelayDone(rn) ==
  /\ rn.pc = "delay"
  /\ Install(rn, EndIteration(currentProcessing, rn, heap))

\* browser.close() resolves (line 314), then lines 315, 458, 459.  The
\* driver closes a browser it launched without rejecting.
CloseDone(rn) ==
  /\ rn.pc = "closing"
  /\ Install(rn,
       [cp |-> [addLog(currentProcessing, "Navegador cerrado", "info", 0)
                  EXCEPT !.isProcessing = FALSE, !.currentRecord = NoRecord],
        rn |-> [rn EXCEPT !.pc = "done", !.browser = "closed"],
        hp |-> heap])

\* ================================================================ the
\* second server of the file (lines 518-712): processingState and the
\* simulated runner simulateAptraProcessing, cut at its timers
MaxSimulations == 2   \* /api/process requests accepted in one run of the server

VARIABLES
  processingState,    \* the session object of the second server (line 537)
  simulations         \* the invocations of simulateAptraProcessing, in the
                      \* order they were spawned: their locals and records

simvars == <<processingState, simulations>>

\* addLog of the second server (lines 546-556) on the session; as for the
\* first server the session keeps which types occur in the list
addLogSim(ps, message, type) ==
  [ps EXCEPT !.logs = @ \cup {type}]

\* lines 537-543, and the entry of line 712 written when the server listens
SimInit ==
  /\ processingState =
       addLogSim([isProcessing |-> FALSE, currentRecord |-> NoRecord,
                  processedCount |-> 0, totalCount |-> 0, logs |-> {}],
                 "Servidor iniciado correctamente", "success")
  /\ simulations = <<>>

\* the records array of a request body: what /api/upload returned, every
\* status pending
Bodies == UNION {[1..n -> {"pending"}] : n \in 0..MaxRows}

\* POST /api/upload (lines 630-665): the batch goes back to the client, the
\* session only gets a log entry; without a file nothing happens
ApiUpload(readable) ==
  /\ processingState' =
       IF readable
       THEN addLogSim(processingState, "Archivo procesado", "success")
       ELSE addLogSim(processingState, "Error al procesar Excel", "error")
  /\ UNCHANGED simulations

ApiUploadNoFile ==
  UNCHANGED simvars

\* lines 612-615
SimFinally(ps, rn) ==
  [ps |-> [ps EXCEPT !.isProcessing = FALSE, !.currentRecord = NoRecord],
   rn |-> [pc |-> "done", i |-> 0, records |-> <<>>, stopSeen |-> FALSE]]

\* The loop test of line 569 with the head of the body (lines 570-578, up
\* to the first timer) for the invocation number s, or lines 607-608 and
\* the finally block
SimLoopHead(ps, rn, s) ==
  IF rn.i < Len(rn.records) /\ ps.isProcessing
  THEN [ps |-> addLogSim([ps EXCEPT !.currentRecord = <<s, rn.i + 1>>,
                                    !.processedCount = rn.i],
                         "Procesando", "info"),
        rn |-> [rn EXCEPT !.pc = "search"]]
  ELSE SimFinally(addLogSim([ps EXCEPT !.processedCount = Len(rn.records)],
                            "Procesamiento completado", "success"),
                  rn)

\* lines 559-565: the synchronous head of the simulated runner
simulateAptraProcessing(ps, records) ==
  [ps |-> addLogSim(addLogSim(ps, "Iniciando procesamiento simulado...", "info"),
                    "Simulando login a Aptra...", "info"),
   rn |-> [pc |-> "login", i |-> 0, records |-> records, stopSeen |-> FALSE]]

\* POST /api/process, the two rejections (lines 671-677)
ApiProcessRejected(credentials) ==
  /\ processingState.isProcessing \/ ~credentials
  /\ UNCHANGED simvars

\* POST /api/process accepted (lines 679-689); the body carries a config
\* and a records array
ApiProcess(credentials, records) ==
  /\ ~processingState.isProcessing
  /\ credentials
  /\ Len(simulations) < MaxSimulations
  /\ LET out == simulateAptraProcessing(
                  [processingState EXCEPT !.isProcessing = TRUE,
                                          !.totalCount = Len(records),
                                          !.processedCount = 0,
                                          !.logs = {}],
                  records)
     IN /\ processingState' = out.ps
        /\ simulations' = Append(simulations, out.rn)

\* a record of an invocation is in flight: between lines 571 and 595
InFlight(rn) == rn.pc \in {"search", "create"}

\* POST /api/stop (lines 693-697)
ApiStop ==
  /\ processingState' =
       addLogSim([processingState EXCEPT !.isProcessing = FALSE],
                 "Procesamiento detenido por usuario", "warning")
  /\ simulations' =
       [s \in DOMAIN simulations |->
          IF InFlight(simulations[s])
          THEN [simulations[s] EXCEPT !.stopSeen = TRUE]
          ELSE simulations[s]]

\* the invocation s takes the step whose result is out
SimInstall(s, out) ==
  /\ processingState' = out.ps
  /\ simulations' = [simulations EXCEPT ![s] = out.rn]

\* the timer of line 565 fires
SimLoginDone(s) ==
  /\ simulations[s].pc = "login"
  /\ SimInstall(s, SimLoopHead(addLogSim(processingState, "Sesion iniciada", "success"),
                               simulations[s], s))

\* the timer of line 578 fires
SimSearchDone(s) ==
  /\ simulations[s].pc = "search"
  /\ SimInstall(s, [ps |-> addLogSim(processingState, "Creando evento", "info"),
                    rn |-> [simulations[s] EXCEPT !.pc = "create"]])

\* the timer of line 582 fires: lines 585-598, success is Math.random() > 0.1
SimCreateDone(s, success) ==
  /\ simulations[s].pc = "create"
  /\ LET rn == simulations[s]
     IN SimInstall(s,
          IF success
          THEN [ps |-> addLogSim(processingState, "Evento creado", "success"),
                rn |-> [rn EXCEPT !.records[rn.i + 1] = "completed", !.pc = "delay"]]
          ELSE [ps |-> addLogSim(processingState, "Error simulado", "error"),
                rn |-> [rn EXCEPT !.records[rn.i + 1] = "failed", !.pc = "delay"]])

\* the timer of line 598 fires: i++ and the loop test
SimDelayDone(s) ==
  /\ simulations[s].pc = "delay"
  /\ SimInstall(s, SimLoopHead(processingState,
                               [simulations[s] EXCEPT !.i = @ + 1], s))

\* ================================================================ the
\* log sink by itself: the two addLog functions on the list they keep
LogCapacity == 100    \* line 553
MaxEmissions == 102   \* entries emitted in one run

VARIABLES
  sink                \* the list each addLog keeps, the number of entries
                      \* emitted so far (the timestamp of the next) and the
                      \* number emitted since the list was last emptied

sinkvars == <<sink>>

\* Array.prototype.slice(-n): the last n elements, all of them if fewer
slice(list, n) ==
  IF Len(list) > n THEN SubSeq(list, Len(list) - n + 1, Len(list)) ELSE list

\* addLog of the first server on its list (line 60): push, nothing else
addLogFirst(logs, log) == Append(logs, log)

\* addLog of the second server on its list (lines 549-555)
addLogSecond(logs, logEntry) ==
  LET pushed == Append(logs, logEntry)
  IN IF Len(pushed) > LogCapacity THEN slice(pushed, LogCapacity) ELSE pushed

SinkInit ==
  sink = [first |-> <<>>, second |-> <<>>, emitted |-> 0, sinceReset |-> 0]

\* one emission, handed to both functions; an entry is named by its
\* place in the order of emission
Emit ==
  /\ sink.emitted < MaxEmissions
  /\ LET entry == sink.emitted + 1
     IN sink' = [first   |-> addLogFirst(sink.first, entry),
                 second  |-> addLogSecond(sink.second, entry),
                 emitted |-> entry, sinceReset |-> sink.sinceReset + 1]

\* logs = [] (lines 350 and 682), then the emission that follows it in the
\* same handler (lines 352 and 561)
EmitAfterReset ==
  /\ sink.emitted < MaxEmissions
  /\ LET entry == sink.emitted + 1
     IN sink' = [first   |-> addLogFirst(<<>>, entry),
                 second  |-> addLogSecond(<<>>, entry),
                 emitted |-> entry, sinceReset |-> 1]

\* ================================================================ the
\* form filler by itself: one call of createIncident (lines 142-186) with
\* fillIncidentForm, fillField, fillDateField and saveIncident, cut at the
\* driver calls.  What the driver answers is the environment's choice.
CreateSelectors == 5   \* lines 147-153
FieldSelectors == 7    \* lines 222-230
SaveSelectors == 3     \* lines 286-291
\* the fillField calls of fillIncidentForm in order (lines 198-210):
\* Status Code, Start Date, End Date, Shared Comment, Action Code
Fields == 5
CommentField == 4      \* line 205: only when record.comentario is set

VARIABLES
  form                \* where the call stands, and what it has done so far

formvars == <<form>>

\* pc: idle, create (line 158), wait (line 172), field (line 234), save
\* (line 295), done.  n: the selector of the list the call is waiting for.
\* attempts, matched, filled, warned, saveTried: what was done for the
\* fields so far (written, never read).
FormIdle ==
  [pc |-> "idle", n |-> 0, field |-> 0, comentario |-> FALSE,
   attempts |-> <<>>, matched |-> 0, filled |-> {}, warned |-> {},
   saveTried |-> FALSE, result |-> "none"]

FormInit == form = FormIdle

\* createIncident returns: line 181 or line 184
FormReturn(fm, value) ==
  [fm EXCEPT !.pc = "done", !.n = 0, !.field = 0, !.attempts = <<>>,
             !.matched = 0, !.result = IF value THEN "true" ELSE "false"]

\* saveIncident is called (line 178) and waits for its first selector
saveIncident(fm) ==
  [fm EXCEPT !.pc = "save", !.n = 1, !.field = 0, !.attempts = <<>>,
             !.matched = 0, !.saveTried = TRUE]

\* the field after f in fillIncidentForm (lines 198-210)
FieldAfter(fm, f) ==
  IF f + 1 = CommentField /\ ~fm.comentario THEN f + 2 ELSE f + 1

\* fillField has returned for field f: the next fillField call, or line 212
\* and saveIncident
NextField(fm, f) ==
  IF FieldAfter(fm, f) <= Fields
  THEN [fm EXCEPT !.pc = "field", !.field = FieldAfter(fm, f), !.n = 1,
                  !.attempts = <<>>, !.matched = 0]
  ELSE saveIncident(fm)

\* a field whose warning ended the call with a failure
FieldNotFound_Mut(fm, f) ==
  FormReturn([fm EXCEPT !.warned = @ \cup {f}], FALSE)

\* line 256: no selector of the list served, a warning is logged and
\* fillField returns
FieldNotFound(fm, f) ==
  NextField([fm EXCEPT !.warned = @ \cup {f}], f)

\* the catch of line 251: the next selector of the list, if any
NextSelector(fm) ==
  IF fm.n < FieldSelectors
  THEN [fm EXCEPT !.n = @ + 1]
  ELSE FieldNotFound(fm, fm.field)

\* a call of createIncident for a record with or without a comment
CallCreateIncident(comentario) ==
  /\ form.pc \in {"idle", "done"}
  /\ form' = [FormIdle EXCEPT !.pc = "create", !.n = 1, !.comentario = comentario]

\* lines 158-164: waitForSelector and click of the create selector n
ControlOutcome == {"found", "notFound"}

CreateSelector(outcome) ==
  /\ form.pc = "create"
  /\ form' = IF outcome = "found"
             THEN [form EXCEPT !.pc = "wait", !.n = 0]
             ELSE IF form.n < CreateSelectors
                  THEN [form EXCEPT !.n = @ + 1]
                  ELSE FormReturn(form, FALSE)

\* line 172 resolves or rejects; then fillIncidentForm up to the first
\* await of its first fillField
FormWait(resolved) ==
  /\ form.pc = "wait"
  /\ form' = IF resolved THEN NextField(form, 0) ELSE FormReturn(form, FALSE)

\* lines 234-252 for the selector n of the field: waitForSelector rejects
\* (noMatch), it resolves and a later driver call of the block rejects
\* (fillFailed), or all of them resolve (filled)
SelectorOutcome == {"noMatch", "fillFailed", "filled"}

FieldSelector(outcome) ==
  /\ form.pc = "field"
  /\ LET tried == [form EXCEPT !.attempts = Append(@, form.n),
                               !.matched = IF @ = 0 /\ outcome # "noMatch"
                                           THEN form.n ELSE @]
     IN form' = IF outcome = "filled"
                THEN NextField([tried EXCEPT !.filled = @ \cup {form.field}],
                               form.field)
                ELSE NextSelector(tried)

\* lines 295-302 for the save selector n: found when waitForSelector,
\* click and waitForTimeout all resolve; line 305 after the last one
SaveSelector(outcome) ==
  /\ form.pc = "save"
  /\ form' = IF outcome = "found"
             THEN FormReturn(form, TRUE)
             ELSE IF form.n < SaveSelectors
                  THEN [form EXCEPT !.n = @ + 1]
                  ELSE FormReturn(form, FALSE)

\* what a step of the first server leaves alone, and a step of the second
besidesFirst == <<simvars, sinkvars, formvars>>
besidesSecond == <<vars, sinkvars, formvars>>

SimNext ==
  \/ ApiUploadNoFile /\ UNCHANGED besidesSecond
  \/ \E readable \in BOOLEAN : ApiUpload(readable) /\ UNCHANGED besidesSecond
  \/ \E credentials \in BOOLEAN : ApiProcessRejected(credentials) /\ UNCHANGED besidesSecond
  \/ \E credentials \in BOOLEAN, records \in Bodies : ApiProcess(credentials, records) /\ UNCHANGED besidesSecond
  \/ ApiStop /\ UNCHANGED besidesSecond
  \/ \E s \in DOMAIN simulations : SimLoginDone(s) /\ UNCHANGED besidesSecond
  \/ \E s \in DOMAIN simulations : SimSearchDone(s) /\ UNCHANGED besidesSecond
  \/ \E s \in DOMAIN simulations, success \in BOOLEAN : SimCreateDone(s, success) /\ UNCHANGED besidesSecond
  \/ \E s \in DOMAIN simulations : SimDelayDone(s) /\ UNCHANGED besidesSecond

\* ---------------------------------------------------------- specification
Next ==
  \/ UploadNoFile /\ UNCHANGED besidesFirst
  \/ UploadUnreadable /\ UNCHANGED besidesFirst
  \/ \E rows \in Sheets : UploadExcel(rows) /\ UNCHANGED besidesFirst
  \/ \E credentials \in BOOLEAN : StartRejected(credentials) /\ UNCHANGED besidesFirst
  \/ \E credentials, delay \in BOOLEAN : StartProcessing(credentials, delay) /\ UNCHANGED besidesFirst
  \/ StopProcessing /\ UNCHANGED besidesFirst
  \/ ClearData /\ UNCHANGED besidesFirst
  \/ \E rn \in BagToSet(runners), o \in DriverLaunch : LaunchDone(rn, o) /\ UNCHANGED besidesFirst
  \/ \E rn \in BagToSet(runners), ok \in BOOLEAN : LoginDone(rn, ok) /\ UNCHANGED besidesFirst
  \/ \E rn \in BagToSet(runners), o \in DriverOutcome : SearchDone(rn, o) /\ UNCHANGED besidesFirst
  \/ \E rn \in BagToSet(runners), o \in CreateOutcome : CreateDone(rn, o) /\ UNCHANGED besidesFirst
  \/ \E rn \in BagToSet(runners) : DelayDone(rn) /\ UNCHANGED besidesFirst
  \/ \E rn \in BagToSet(runners) : CloseDone(rn) /\ UNCHANGED besidesFirst

\* the state after the file was loaded: both servers as constructed
InitServers == Init /\ SimInit /\ SinkInit /\ FormInit

allvars == <<vars, simvars, sinkvars, formvars>>

\* the first server runs; the second is not started
Spec == InitServers /\ [][Next]_allvars

\* The same server with a client that uploads only while no invocation is
\* live and never clears: start and stop requests against the runner
QuietUpload(rows) == runners = EmptyBag /\ UploadExcel(rows)

NextStartStop ==
  \/ \E rows \in Sheets : QuietUpload(rows) /\ UNCHANGED besidesFirst
  \/ \E credentials \in BOOLEAN : StartRejected(credentials) /\ UNCHANGED besidesFirst
  \/ \E credentials, delay \in BOOLEAN : StartProcessing(credentials, delay) /\ UNCHANGED besidesFirst
  \/ StopProcessing /\ UNCHANGED besidesFirst
  \/ \E rn \in BagToSet(runners), o \in DriverLaunch : LaunchDone(rn, o) /\ UNCHANGED besidesFirst
  \/ \E rn \in BagToSet(runners), ok \in BOOLEAN : LoginDone(rn, ok) /\ UNCHANGED besidesFirst
  \/ \E rn \in BagToSet(runners), o \in DriverOutcome : SearchDone(rn, o) /\ UNCHANGED besidesFirst
  \/ \E rn \in BagToSet(runners), o \in CreateOutcome : CreateDone(rn, o) /\ UNCHANGED besidesFirst
  \/ \E rn \in BagToSet(runners) : DelayDone(rn) /\ UNCHANGED besidesFirst
  \/ \E rn \in BagToSet(runners) : CloseDone(rn) /\ UNCHANGED besidesFirst

SpecStartStop == InitServers /\ [][NextStartStop]_allvars

\* the second server runs; the first is not started
SpecSim == InitServers /\ [][SimNext]_allvars

\* the process runs one of the two servers of the file: a server takes
\* steps only while the other is as constructed
NextEither ==
  \/ SimInit /\ Next
  \/ Init /\ SimNext

SpecEither == InitServers /\ [][NextEither]_allvars

\* the log sink by itself, neither server started
SinkNext ==
  \/ Emit /\ UNCHANGED <<vars, simvars, formvars>>
  \/ EmitAfterReset /\ UNCHANGED <<vars, simvars, formvars>>

SpecSink == InitServers /\ [][SinkNext]_allvars

\* the form filler by itself, neither server started
FormNext ==
  \/ \E comentario \in BOOLEAN :
        CallCreateIncident(comentario) /\ UNCHANGED <<vars, simvars, sinkvars>>
  \/ \E o \in ControlOutcome : CreateSelector(o) /\ UNCHANGED <<vars, simvars, sinkvars>>
  \/ \E resolved \in BOOLEAN : FormWait(resolved) /\ UNCHANGED <<vars, simvars, sinkvars>>
  \/ \E o \in SelectorOutcome : FieldSelector(o) /\ UNCHANGED <<vars, simvars, sinkvars>>
  \/ \E o \in ControlOutcome : SaveSelector(o) /\ UNCHANGED <<vars, simvars, sinkvars>>

SpecForm == InitServers /\ [][FormNext]_allvars

\* ------------------------------------------------------------ properties
Runners == BagToSet(runners)

\* the session's records, as GET /api/processing-status returns them
StatusOf(k) == heap[currentProcessing.records[k]].status
Positions == 1..Len(currentProcessing.records)
TerminalCount == Cardinality({k \in Positions : StatusOf(k) \in Terminal})
NonPendingCount == Cardinality({k \in Positions : StatusOf(k) # "pending"})

\* rn resumes in this step and becomes rn2
Resumes(rn, rn2) == rn # rn2 /\ runners' = (runners (-) One(rn)) (+) One(rn2)
\* rn resumes in this step and ends
Ends(rn) == runners' = runners (-) One(rn)
\* rn begins a record in this step (lines 413-414)
StartsRecord(rn) ==
  \E rn2 \in BagToSet(runners') :
     /\ Resumes(rn, rn2)
     /\ rn2.pc = "search"
     /\ (rn.pc # "search" \/ rn2.i # rn.i)

\* C1: at any instant at most one invocation of processRecords is live
\* (has not finished its cleanup).
C1_AtMostOneRunner == BagCardinality(runners) <= 1

\* C2: once a stop-processing request was handled during a batch (and no
\* start accepted since), the runner begins no further record.
C2_NoRecordStartedAfterStop ==
  [][stopped => \A rn \in Runners : ~StartsRecord(rn)]_vars

\* C3 as claimed: while an invocation of processRecords is live (between
\* the acceptance of its start and the end of its cleanup), isProcessing
\* is true.
C3_TrueUntilCleanup ==
  runners # EmptyBag => currentProcessing.isProcessing

\* C3 as amended: an accepted start leaves isProcessing true, and it turns
\* false only in a stop-processing request, a clear-data request or the
\* last step of the cleanup of an invocation of processRecords.
C3_ResetOnlyByStopClearCleanup ==
  [][/\ BagCardinality(runners') > BagCardinality(runners)
          => currentProcessing'.isProcessing
     /\ (currentProcessing.isProcessing /\ ~currentProcessing'.isProcessing)
          => \/ StopProcessing
             \/ ClearData
             \/ \E rn \in Runners : Ends(rn)]_vars

\* a stop has reset the flag while the runner is in the middle of a record
C3_Witness ==
  /\ stopped
  /\ ~currentProcessing.isProcessing
  /\ \E rn \in Runners : rn.pc = "create"

\* C4: at every observable state processedCount equals the number of
\* records with a terminal status.
C4_CountEqualsTerminal ==
  currentProcessing.processedRecords = TerminalCount

\* C5: in every reachable state processedCount is at most the number of
\* records whose status is not pending.
C5_CountAtMostNonPending ==
  currentProcessing.processedRecords <= NonPendingCount

\* rn2 is where the loop of processRecords stands after the iteration that
\* rn was in: waiting out the delay, in the next record, or past the last
\* record and on the normal way out
Continues(rn, rn2) ==
  \/ rn2.pc = "delay" /\ rn2.i = rn.i /\ rn.pc = "create"
  \/ /\ rn2.pc = "search" /\ rn2.i = rn.i + 1
     /\ rn2.record = currentProcessing.records[rn.i + 2]
  \/ /\ rn2.pc = "closing" /\ rn2.exit = "completed"
     /\ rn.i + 1 >= Len(currentProcessing.records)

\* the step is a per-record failure of rn: target not found, or the
\* incident could not be created
FailsRecord(rn) ==
  \/ \E o \in DriverOutcome : ~searchAndSelectATM(o) /\ SearchDone(rn, o)
  \/ \E o \in CreateOutcome : ~createIncident(o) /\ CreateDone(rn, o)

C6_NoFormAfterNotFound ==
  \A rn \in Runners : rn.pc = "create" => rn.searchSuccess

\* in a step in which an invocation of processRecords resumes
C6_FailureIsIsolated ==
  runners' # runners =>
  \A rn \in Runners :
     /\ FailsRecord(rn) =>
          /\ rn.record \in DOMAIN heap' =>
               /\ heap'[rn.record].status = "error"
               /\ heap'[rn.record].error # "none"
          /\ \A o \in DOMAIN heap' \ {rn.record} : heap'[o] = heap[o]
          /\ \E rn2 \in BagToSet(runners') : Resumes(rn, rn2) /\ Continues(rn, rn2)
     /\ DelayDone(rn) =>
          \E rn2 \in BagToSet(runners') : Resumes(rn, rn2) /\ Continues(rn, rn2)

\* C6: a per-record failure (target not found, incident not created, a
\* driver error while the record is processed) marks that record and no
\* other as failed, with a reason, and the loop goes on to the next record
\* or, after the last, to its normal end; a record whose target was not
\* found never reaches createIncident.
C6_PartialFailureIsolation ==
  []C6_NoFormAfterNotFound /\ [][C6_FailureIsIsolated]_vars

\* the first record of two failed and the runner is creating the incident
\* of the second
C6_Witness ==
  /\ Len(currentProcessing.records) = 2
  /\ StatusOf(1) = "error"
  /\ \E rn \in Runners :
        rn.pc = "create" /\ rn.i = 1 /\ rn.record = currentProcessing.records[2]

\* C7: within a batch records reach a terminal status in ascending order,
\* and no record is begun while an earlier record of the batch is not yet
\* terminal.
C7_AscendingOrder ==
  [][/\ \A k \in 1..Len(currentProcessing'.records) :
          LET o == currentProcessing'.records[k]
          IN (o \in DOMAIN heap /\ heap[o].status \notin Terminal
                /\ heap'[o].status \in Terminal)
             => \A j \in 1..(k - 1) :
                   heap'[currentProcessing'.records[j]].status \in Terminal
     /\ \A rn \in Runners : \A rn2 \in BagToSet(runners') :
          (Resumes(rn, rn2) /\ StartsRecord(rn))
             => \A j \in 1..rn2.i :
                   heap'[currentProcessing'.records[j]].status \in Terminal]_vars

C8_CloseCalledOnce ==
  \A rn \in Runners :
     /\ rn.closeCalls = (IF rn.pc = "closing" THEN 1 ELSE 0)
     /\ rn.pc = "closing" => rn.browser = "open"

C8_CleanupOnExit ==
  \A rn \in Runners :
     Ends(rn) =>
       /\ ~currentProcessing'.isProcessing
       /\ currentProcessing'.currentRecord = NoRecord
       /\ \/ rn.pc = "closing" /\ rn.closeCalls = 1
          \/ /\ rn.browser = "null" /\ rn.closeCalls = 0
             /\ Fatal(currentProcessing, rn, heap).rn.closeCalls = 1

C9_TerminalIsFinal ==
  [][\A o \in DOMAIN heap \cap DOMAIN heap' :
        heap[o].status \in Terminal => heap'[o].status = heap[o].status]_vars

\* C10: while a runner is working on a record, exactly one record of the
\* session has status processing, and it is the session's currentRecord.
C10_OneProcessingRecord ==
  (\E rn \in Runners : rn.pc \in {"search", "create"}) =>
     \E k \in Positions :
        /\ {j \in Positions : StatusOf(j) = "processing"} = {k}
        /\ currentProcessing.currentRecord = currentProcessing.records[k]

\* ---------------------------------------------------------------- C11
\* the step is the return of login() with false to the invocation rn
LoginFails(rn) == LoginDone(rn, FALSE)

\* no record object that exists before and after the step has changed
RecordsUntouched ==
  \A o \in DOMAIN heap \cap DOMAIN heap' : heap'[o] = heap[o]

C11_AbortStep ==
  \A rn \in Runners :
     LoginFails(rn) =>
       /\ RecordsUntouched
       /\ currentProcessing'.processedRecords = currentProcessing.processedRecords
       /\ currentProcessing'.currentRecord = currentProcessing.currentRecord
       /\ "error" \in currentProcessing'.logs
       /\ \E rn2 \in BagToSet(runners') :
             /\ Resumes(rn, rn2)
             /\ rn2.pc = "closing" /\ rn2.exit = "fatal" /\ rn2.i = 0

C11_AbortedCleanup ==
  \A rn \in Runners :
     (rn.exit = "fatal" /\ Ends(rn)) =>
       /\ RecordsUntouched
       /\ currentProcessing'.processedRecords = currentProcessing.processedRecords
       /\ ~currentProcessing'.isProcessing

StartAccepted == ENABLED (\E credentials, delay \in BOOLEAN :
                            StartProcessing(credentials, delay))
\* a /api/process request would be accepted in this state
ProcessAccepted == ENABLED (\E credentials \in BOOLEAN, records \in Bodies :
                              ApiProcess(credentials, records))

\* while the flag an acceptance has set is up, a start is not accepted
C12_SecondRejected ==
  /\ currentProcessing.isProcessing => ~StartAccepted
  /\ processingState.isProcessing => ~ProcessAccepted

\* an accepted start spawns one runner and leaves the flag up; a rejected
\* one spawns none and changes nothing
C12_FirstAccepted ==
  /\ (\E credentials, delay \in BOOLEAN : StartProcessing(credentials, delay))
        => /\ currentProcessing'.isProcessing
           /\ BagCardinality(runners') = BagCardinality(runners) + 1
  /\ (\E credentials \in BOOLEAN, records \in Bodies : ApiProcess(credentials, records))
        => /\ processingState'.isProcessing
           /\ Len(simulations') = Len(simulations) + 1
  /\ (\E credentials \in BOOLEAN : StartRejected(credentials))
        => runners' = runners /\ currentProcessing' = currentProcessing
  /\ (\E credentials \in BOOLEAN : ApiProcessRejected(credentials))
        => simulations' = simulations /\ processingState' = processingState

\* C12: of two start requests in immediate succession (POST
\* /api/start-processing of the first server, POST /api/process of the
\* second) the first, once accepted, spawns one runner and leaves
\* isProcessing true, and in that state the second is rejected, spawns no
\* runner and changes nothing.
C12_OneAcceptedOneRejected ==
  []C12_SecondRejected /\ [][C12_FirstAccepted]_allvars

\* a start has just been accepted: the flag is up, its runner is the only
\* one and stands at its first await, and a start with credentials over the
\* loaded batch is not accepted
C12_Witness ==
  /\ currentProcessing.isProcessing
  /\ Len(currentProcessing.records) > 0
  /\ runners = One(SpawnRunner(FALSE))
  /\ ~StartAccepted

\* ---------------------------------------------------------------- C13
\* the list holds the most recent entries, in the order of emission, at
\* most LogCapacity of them and exactly that many once more were emitted
Retained(logs) ==
  /\ Len(logs) <= LogCapacity
  /\ Len(logs) = (IF sink.sinceReset > LogCapacity THEN LogCapacity
                  ELSE sink.sinceReset)
  /\ \A k \in 1..Len(logs) : logs[k] = sink.emitted - Len(logs) + k

\* C13: after any sequence of emissions the log of either addLog holds at
\* most LogCapacity entries, and once more than that were emitted exactly
\* the LogCapacity most recent ones, in the order of emission.
C13_LogBounded ==
  Retained(sink.first) /\ Retained(sink.second)

\* the part of C13 that is about the addLog of the second server
C13_SecondLogBounded ==
  Retained(sink.second)

\* ---------------------------------------------------------------- C14
\* the id field of the record at position k of the session's batch
IdOf(k) == currentProcessing.records[k][2]

\* C14: the batch of the session holds the rows with an identifier in
\* upload order, totalRecords is their number n, and their ids are 1..n in
\* that order.
C14_ContiguousIndices ==
  /\ currentProcessing.totalRecords = Len(currentProcessing.records)
  /\ \A k \in Positions : IdOf(k) = k

\* ---------------------------------------------------------------- C15
\* C15: fillField tries the selectors of its list strictly in order and
\* stops at the first that matches: while it waits for selector n, the
\* selectors tried before are 1..n-1 in that order and none of them has
\* matched.
C15_FirstMatchWins ==
  form.pc = "field" =>
    /\ form.attempts = [k \in 1..(form.n - 1) |-> k]
    /\ form.matched = 0

\* ---------------------------------------------------------------- C20
\* the fields fillIncidentForm has to deal with for this record
Required == {f \in 1..Fields : f # CommentField \/ form.comentario}

\* a step of fillField never ends the call; it leads to the next selector,
\* to the next field, or, after the last field, to saveIncident with every
\* required field either filled or warned about
C20_FieldStep ==
  form.pc = "field" =>
    /\ form'.result = "none"
    /\ form'.pc \in {"field", "save"}
    /\ form'.pc = "field" =>
         \/ form'.field = form.field /\ form'.n = form.n + 1
         \/ form'.field = FieldAfter(form, form.field) /\ form'.n = 1
    /\ form'.pc = "save" =>
         /\ form'.saveTried
         /\ form'.filled \cup form'.warned = Required
         /\ form'.filled \cap form'.warned = {}

\* createIncident returns false exactly when a list of controls is
\* exhausted (create, save) or the wait of line 172 rejects, and a call
\* that has returned makes no further driver call
C20_HardFailure ==
  /\ (form.pc = "create" /\ form.n = CreateSelectors /\ CreateSelector("notFound"))
        => form'.result = "false" /\ ~form'.saveTried
  /\ (form.pc = "save" /\ form.n = SaveSelectors /\ SaveSelector("notFound"))
        => form'.result = "false"
  /\ (form.result = "none" /\ form'.result = "false")
        => \/ form.pc = "create" /\ form.n = CreateSelectors
           \/ form.pc = "save" /\ form.n = SaveSelectors
           \/ form.pc = "wait"
  /\ form.pc = "done"
        => \E comentario \in BOOLEAN : CallCreateIncident(comentario)

C16_NothingOutlives ==
  \/ currentProcessing.currentRecord = NoRecord
  \/ \E k \in Positions :
        currentProcessing.records[k] = currentProcessing.currentRecord

\* ---------------------------------------------------------------- C17
\* rn ends an iteration of the loop in this step: its record is terminal
\* and it goes on to the next record or leaves the loop
EndsIteration(rn) ==
  /\ rn.pc \in {"search", "create", "delay"}
  /\ \/ Ends(rn)
     \/ \E rn2 \in BagToSet(runners') :
           /\ Resumes(rn, rn2)
           /\ \/ rn2.pc = "search" /\ rn2.i = rn.i + 1
              \/ rn2.pc = "closing"

\* C17: processRecords increments processedRecords exactly once for every
\* record it brings to a terminal status, after the status is set: by one
\* in the step that ends the record's iteration, and in no other step.
C17_CountedOncePerRecord ==
  [][\A rn \in Runners :
        /\ EndsIteration(rn)
             => currentProcessing'.processedRecords
                  = currentProcessing.processedRecords + 1
        /\ (rn.pc \in {"search", "create", "delay"} /\ ~EndsIteration(rn)
              /\ \E rn2 \in BagToSet(runners') : Resumes(rn, rn2))
             => currentProcessing'.processedRecords
                  = currentProcessing.processedRecords]_vars

\* ---------------------------------------------------------------- C18
\* the step is the return of a driver call that failed for the record of rn
DriverCrashes(rn) == SearchDone(rn, "crashed") \/ CreateDone(rn, "crashed")

\* C18: when the driver itself fails while a record is processed, the
\* batch is aborted: the runner goes to its cleanup through the fatal
\* exit, the records after that one stay pending and an error is logged.
C18_DriverCrashAborts ==
  [][\A rn \in Runners :
        DriverCrashes(rn) =>
          /\ "error" \in currentProcessing'.logs
          /\ \E rn2 \in BagToSet(runners') :
                Resumes(rn, rn2) /\ rn2.pc = "closing" /\ rn2.exit = "fatal"]_vars

\* ---------------------------------------------------------------- C19
\* the invocation s begins a record in this step (lines 570-575)
SimStartsRecord(s) ==
  /\ simulations'[s].pc = "search"
  /\ simulations[s].pc # "search"

\* C19: a stop handled while a record of the simulated runner is in flight
\* does not cut that record short (its create step still gives it a
\* terminal status), and the runner begins no record after it.
C19_StopAtLoopBoundary ==
  [][\A s \in DOMAIN simulations :
        simulations[s].stopSeen =>
          /\ ~SimStartsRecord(s)
          /\ simulations[s].pc = "create" /\ simulations'[s] # simulations[s]
                => simulations'[s].records[simulations[s].i + 1]
                      \in {"completed", "failed"}]_allvars

\* ---------------------------------------------------------------- C21
\* C21: with a delay configured, processRecords goes from record i to
\* record i+1 only through the wait of line 440, whatever the outcome of
\* record i, and it does not wait after the last record.
C21_DelayBetweenRecords ==
  [][\A rn \in Runners : \A rn2 \in BagToSet(runners') :
        Resumes(rn, rn2) =>
          /\ (rn.delay /\ rn2.pc = "search" /\ rn2.i = rn.i + 1)
                => rn.pc = "delay"
          /\ (rn2.pc = "delay" /\ rn.pc # "delay")
                => rn.i < Len(currentProcessing.records) - 1]_vars

\* ---------------------------------------------------------------- C22
\* browser.close() rejects (line 314).  Neither close() nor the finally
\* block catches: lines 315, 458 and 459 do not run and the invocation ends
\* with the rejection, the session left as it was and the browser not
\* closed.  The first server's other specifications are about a driver that
\* closes the browser it launched; this step belongs to the one in which
\* every driver call may return a failure.
CloseRejected(rn) ==
  /\ rn.pc = "closing"
  /\ Install(rn,
       [cp |-> currentProcessing,
        rn |-> [rn EXCEPT !.pc = "done", !.exit = "rejected"],
        hp |-> heap])

\* Every await of processRecords is on a driver call or a timer.  Once the
\* call returns or the timer fires, Node's event loop runs the continuation:
\* a continuation that stays ready is eventually run (weak fairness), one
\* condition for each await of the runner.
RunnerFairness ==
  /\ WF_allvars(\E rn \in BagToSet(runners), o \in DriverLaunch :
                   LaunchDone(rn, o) /\ UNCHANGED besidesFirst)
  /\ WF_allvars(\E rn \in BagToSet(runners), ok \in BOOLEAN :
                   LoginDone(rn, ok) /\ UNCHANGED besidesFirst)
  /\ WF_allvars(\E rn \in BagToSet(runners), o \in DriverOutcome :
                   SearchDone(rn, o) /\ UNCHANGED besidesFirst)
  /\ WF_allvars(\E rn \in BagToSet(runners), o \in CreateOutcome :
                   CreateDone(rn, o) /\ UNCHANGED besidesFirst)
  /\ WF_allvars(\E rn \in BagToSet(runners) : DelayDone(rn) /\ UNCHANGED besidesFirst)
  /\ WF_allvars(\E rn \in BagToSet(runners) :
                   (CloseDone(rn) \/ CloseRejected(rn)) /\ UNCHANGED besidesFirst)

\* The requests of a client whose sheets have an id in every row and whose
\* starts configure a delay, so that the runner goes through every await of
\* its loop; start, stop, upload and clear come at any time, and every
\* driver call returns with success or with failure.
FullSheets == {rows \in Sheets : \A k \in 1..Len(rows) : rows[k] # ""}

NextFair ==
  \/ UploadNoFile /\ UNCHANGED besidesFirst
  \/ \E rows \in FullSheets : UploadExcel(rows) /\ UNCHANGED besidesFirst
  \/ \E credentials \in BOOLEAN : StartRejected(credentials) /\ UNCHANGED besidesFirst
  \/ \E credentials \in BOOLEAN : StartProcessing(credentials, TRUE) /\ UNCHANGED besidesFirst
  \/ StopProcessing /\ UNCHANGED besidesFirst
  \/ ClearData /\ UNCHANGED besidesFirst
  \/ \E rn \in BagToSet(runners), o \in DriverLaunch : LaunchDone(rn, o) /\ UNCHANGED besidesFirst
  \/ \E rn \in BagToSet(runners), ok \in BOOLEAN : LoginDone(rn, ok) /\ UNCHANGED besidesFirst
  \/ \E rn \in BagToSet(runners), o \in DriverOutcome : SearchDone(rn, o) /\ UNCHANGED besidesFirst
  \/ \E rn \in BagToSet(runners), o \in CreateOutcome : CreateDone(rn, o) /\ UNCHANGED besidesFirst
  \/ \E rn \in BagToSet(runners) : DelayDone(rn) /\ UNCHANGED besidesFirst
  \/ \E rn \in BagToSet(runners) : CloseDone(rn) /\ UNCHANGED besidesFirst
  \/ \E rn \in BagToSet(runners) : CloseRejected(rn) /\ UNCHANGED besidesFirst

\* the first server, with every driver call and delay eventually returning
SpecFair == InitServers /\ [][NextFair]_allvars /\ RunnerFairness

AcceptsStart == \E credentials, delay \in BOOLEAN : StartProcessing(credentials, delay)

Settled ==
  /\ runners = EmptyBag
  /\ ~currentProcessing.isProcessing
  /\ currentProcessing.currentRecord = NoRecord

\* C22: the invocations of processRecords are the accepted starts; when no
\* further start is accepted, every invocation made so far runs its cleanup
\* and the session is left with isProcessing false and currentRecord none,
\* whatever start, stop, upload or clear requests came in between.
C22_EveryBatchTerminates ==
  <>[][~AcceptsStart]_vars => <>[]Settled

\* Every invocation does come to its end: when no further start is
\* accepted, eventually none is live, whatever the driver calls returned.
C22_EveryInvocationEnds ==
  <>[][~AcceptsStart]_vars => <>[](runners = EmptyBag)

====
